---- MODULE Spec2Model ----
(***************************************************************************)
(* OptimalityErrorConvergenceCheck of Ipopt                                *)
(* (src/Ipopt/src/Algorithm/IpOptErrorConvCheck.cpp): the termination      *)
(* decision of the interior-point loop.                                    *)
(*                                                                         *)
(* Real quantities are modelled on an integer grid.  Only comparisons      *)
(* (<=, >, >=) and the relative objective change are computed on them, so  *)
(* every double of the code is represented by an integer that keeps its    *)
(* order relative to the other values of the model.  CPU times are whole   *)
(* seconds.                                                                *)
(***************************************************************************)
EXTENDS Integers, FiniteSets, Sequences, TLC

VARIABLES
    self,          \* the OptimalityErrorConvergenceCheck object (its fields)
    ip,            \* what IpData(), IpCq() and CpuTime() answer for the current iterate
    initialization,\* the options list of the last initialization and whether it succeeded
    status,        \* return value of the CheckConvergence call that has just returned, else "NONE"
    request_stop,  \* local request_stop of that call (line 197)
    acc_test,      \* outcome of CurrentIsAcceptable in the call that has just returned
    pre,           \* history: the object as it was when that call started
    callback,      \* the step norm passed to IntermediateCallBack by that call: <<dnrm>>, or <<>> if it was not called
    streak,        \* history: acceptable-test passes since InitializeImpl or the last failing test
    calls          \* history: CheckConvergence calls made by the one-call-per-iteration driver

vars == <<self, ip, initialization, status, request_stop, acc_test, callback, pre, streak, calls>>

----------------------------------------------------------------------------
(* Bounds of the model *)

\* largest max_iter option and largest IpData().iter_count()
MaxIterations == 1
\* largest acceptable_iter option
MaxAcceptableIter == 2

(* Program constants, in model units *)

\* 1e300, the relaxed tolerance of a square problem
RelaxedTol == 1000
\* -1e50, curr_obj_val_ after InitializeImpl
ObjSentinel == -1000000
\* -1, last_obj_val_iter_ after InitializeImpl
NoIter == -1
\* 999999., the max_cpu_time from which on the time test is skipped
CpuTimeCutoff == 999999
\* 1e6, the default of max_cpu_time
DefaultMaxCpuTime == 1000000
\* 1e20, the default of acceptable_obj_change_tol
DefaultObjChangeTol == 1000
\* 0., the step norm when there is no direction
NoStep == 0

(* Value sets of the inputs *)

\* IpData().tol()
TolValues == {1}
\* curr_nlp_error()
OverallErrorValues == {1, 2}
\* unscaled dual infeasibility, constraint violation, complementarity (all < 1e300)
ErrorValues == {1, 2}
\* x()->Amax()
AmaxValues == {1, 2}
\* curr_f()
ObjValues == {0, 1}
\* CpuTime() - IpData().cpu_time_start()
ElapsedValues == {1, 2000000}
\* x()->Dim(), y_c()->Dim()
XDims == {2}
YcDims == {1, 2}
\* delta()->x()->Amax(), delta()->s()->Amax()
StepValues == {1, 2}
\* IpData().delta(): no direction yet
NoDirection == [valid |-> FALSE, x_valid |-> FALSE, s_valid |-> FALSE,
                x_Amax |-> NoStep, s_Amax |-> NoStep]
\* IpData().delta(): none, one whose x part or s part is missing, a complete one
Directions ==
    {NoDirection}
    \cup {[valid |-> TRUE, x_valid |-> FALSE, s_valid |-> TRUE,
           x_Amax |-> NoStep, s_Amax |-> a] : a \in StepValues}
    \cup {[valid |-> TRUE, x_valid |-> TRUE, s_valid |-> FALSE,
           x_Amax |-> a, s_Amax |-> NoStep] : a \in StepValues}
    \cup {[valid |-> TRUE, x_valid |-> TRUE, s_valid |-> TRUE,
           x_Amax |-> a, s_Amax |-> b] : a \in StepValues, b \in StepValues}
\* IpData().iter_count()
IterCounts == 0..MaxIterations

Statuses ==
    {"USER_STOP", "CONVERGED", "CONVERGED_TO_ACCEPTABLE_POINT", "DIVERGING",
     "MAXITER_EXCEEDED", "CPUTIME_EXCEEDED", "CONTINUE"}

----------------------------------------------------------------------------
(* Options read by InitializeImpl.  In the base list the primary          *)
(* tolerances are 1 and acceptable_tol is 2, so that each quantity takes   *)
(* a value equal to its tolerance and one above it; the other lists change *)
(* one option of the base list.  An acceptable_obj_change_tol of twice     *)
(* the magnitude of the -1e50 sentinel lets the objective test pass on its *)
(* first evaluation, 0 lets it pass only if the objective did not change.  *)

BaseOptions ==
    [max_iter                    |-> MaxIterations,
     max_cpu_time                |-> 1,
     dual_inf_tol                |-> 1,
     constr_viol_tol             |-> 1,
     compl_inf_tol               |-> 1,
     acceptable_iter             |-> MaxAcceptableIter,
     acceptable_tol              |-> 2,
     acceptable_dual_inf_tol     |-> 1,
     acceptable_constr_viol_tol  |-> 1,
     acceptable_compl_inf_tol    |-> 1,
     acceptable_obj_change_tol   |-> DefaultObjChangeTol,
     diverging_iterates_tol      |-> 1]

OptionsLists ==
    {[BaseOptions EXCEPT !.max_iter = m] : m \in 0..MaxIterations}
    \cup {[BaseOptions EXCEPT !.acceptable_iter = a] : a \in 0..MaxAcceptableIter}
    \cup {[BaseOptions EXCEPT !.max_cpu_time = DefaultMaxCpuTime],
          [BaseOptions EXCEPT !.dual_inf_tol = 2, !.compl_inf_tol = 2],
          [BaseOptions EXCEPT !.acceptable_obj_change_tol = 0],
          [BaseOptions EXCEPT !.acceptable_obj_change_tol = 2 * (-ObjSentinel)]}

\* options lists as a user may write them: the ones above and lists with a
\* value at or below the lower bound of its option
RequestedOptions ==
    OptionsLists
    \cup {[BaseOptions EXCEPT !.max_iter = -1],
          [BaseOptions EXCEPT !.max_cpu_time = 0],
          [BaseOptions EXCEPT !.max_cpu_time = -1],
          [BaseOptions EXCEPT !.dual_inf_tol = 0],
          [BaseOptions EXCEPT !.dual_inf_tol = -1],
          [BaseOptions EXCEPT !.acceptable_iter = -1]}

----------------------------------------------------------------------------
(* RegisterOptions: every option is registered with a lower bound, which   *)
(* is strict (excluded) where the fourth argument is true.                 *)

\* mutant: every lower bound is registered as strict
RegisteredBound_AllStrict(name) == [lower |-> 0, strict |-> TRUE]

RegisteredBound(name) ==
    CASE name = "max_iter"                   -> [lower |-> 0, strict |-> FALSE]
      [] name = "max_cpu_time"               -> [lower |-> 0, strict |-> TRUE]
      [] name = "dual_inf_tol"               -> [lower |-> 0, strict |-> TRUE]
      [] name = "constr_viol_tol"            -> [lower |-> 0, strict |-> TRUE]
      [] name = "compl_inf_tol"              -> [lower |-> 0, strict |-> TRUE]
      [] name = "acceptable_tol"             -> [lower |-> 0, strict |-> TRUE]
      [] name = "acceptable_iter"            -> [lower |-> 0, strict |-> FALSE]
      [] name = "acceptable_dual_inf_tol"    -> [lower |-> 0, strict |-> TRUE]
      [] name = "acceptable_constr_viol_tol" -> [lower |-> 0, strict |-> TRUE]
      [] name = "acceptable_compl_inf_tol"   -> [lower |-> 0, strict |-> TRUE]
      [] name = "acceptable_obj_change_tol"  -> [lower |-> 0, strict |-> FALSE]
      [] name = "diverging_iterates_tol"     -> [lower |-> 0, strict |-> TRUE]

\* the options registry: a value is a valid setting of its option if it is
\* within the registered bound
IsValidSetting(name, value) ==
    LET bound == RegisteredBound(name)
    IN  IF bound.strict THEN value > bound.lower ELSE value >= bound.lower

\* the options registry: a list is admitted if every value of it is valid
Admitted(o) == \A name \in DOMAIN o : IsValidSetting(name, o[name])

----------------------------------------------------------------------------
(* Helpers *)

Abs(a) == IF a < 0 THEN -a ELSE a

Max(a, b) == IF a > b THEN a ELSE b

\* IpData().curr()->x()->Dim() == IpData().curr()->y_c()->Dim()
IsSquare(d) == d.x_Dim = d.y_c_Dim

\* mutant: the tolerances are relaxed whatever the dimensions
RelaxTol_Always(square, t) == RelaxedTol

\* a tolerance after the square-problem block
RelaxTol(square, t) == IF square THEN RelaxedTol ELSE t

----------------------------------------------------------------------------
(* InitializeImpl: the options are copied into the fields, the counter and *)
(* the objective bookkeeping are reset.  last_obj_val_ is not assigned.    *)

\* mutant: the recorded objective starts at zero
ObjectiveAfterInitialize_Zero(s) ==
    [curr_obj_val_ |-> 0, last_obj_val_iter_ |-> NoIter]

\* lines 159-160
ObjectiveAfterInitialize(s) ==
    [curr_obj_val_ |-> ObjSentinel, last_obj_val_iter_ |-> NoIter]

InitializeImplResult(s, o) ==
    [max_iterations_              |-> o.max_iter,
     max_cpu_time_                |-> o.max_cpu_time,
     dual_inf_tol_                |-> o.dual_inf_tol,
     constr_viol_tol_             |-> o.constr_viol_tol,
     compl_inf_tol_               |-> o.compl_inf_tol,
     acceptable_iter_             |-> o.acceptable_iter,
     acceptable_tol_              |-> o.acceptable_tol,
     acceptable_dual_inf_tol_     |-> o.acceptable_dual_inf_tol,
     acceptable_constr_viol_tol_  |-> o.acceptable_constr_viol_tol,
     acceptable_compl_inf_tol_    |-> o.acceptable_compl_inf_tol,
     acceptable_obj_change_tol_   |-> o.acceptable_obj_change_tol,
     diverging_iterates_tol_      |-> o.diverging_iterates_tol,
     acceptable_counter_          |-> 0,
     curr_obj_val_                |-> ObjectiveAfterInitialize(s).curr_obj_val_,
     last_obj_val_                |-> s.last_obj_val_,
     last_obj_val_iter_           |-> ObjectiveAfterInitialize(s).last_obj_val_iter_]

----------------------------------------------------------------------------
(* CurrentIsAcceptable *)

\* mutant: the bookkeeping is done at every evaluation, repeated index or not
ObjBookkeeping_Always(s, d) ==
    [s EXCEPT !.last_obj_val_ = s.curr_obj_val_,
              !.curr_obj_val_ = d.curr_f,
              !.last_obj_val_iter_ = d.iter_count]

\* lines 281-289: the objective bookkeeping
ObjBookkeeping(s, d) ==
    IF d.iter_count # s.last_obj_val_iter_
    THEN [s EXCEPT !.last_obj_val_ = s.curr_obj_val_,
                   !.curr_obj_val_ = d.curr_f,
                   !.last_obj_val_iter_ = d.iter_count]
    ELSE s

\* mutant: the acceptable test has no square-problem block
AcceptableRelaxed_Missing(s, d) == s

\* lines 301-307: the square-problem block of the acceptable test
AcceptableRelaxed(s, d) ==
    [s EXCEPT !.acceptable_dual_inf_tol_ = RelaxTol(IsSquare(d), @),
              !.acceptable_compl_inf_tol_ = RelaxTol(IsSquare(d), @)]

\* fabs(curr_obj_val_ - last_obj_val_) / Max(1., fabs(curr_obj_val_)) <= acceptable_obj_change_tol_
\* (the divisor is >= 1, so the quotient is compared by cross-multiplying)
ObjChangeTest(s) ==
    Abs(s.curr_obj_val_ - s.last_obj_val_)
        <= s.acceptable_obj_change_tol_ * Max(1, Abs(s.curr_obj_val_))

\* lines 331-333: the returned conjunction
AcceptableTest(d, s) ==
    /\ d.overall_error <= s.acceptable_tol_
    /\ d.dual_inf <= s.acceptable_dual_inf_tol_
    /\ d.constr_viol <= s.acceptable_constr_viol_tol_
    /\ d.compl_inf <= s.acceptable_compl_inf_tol_
    /\ ObjChangeTest(s)

CurrentIsAcceptableImpl(s, d) ==
    LET s2 == AcceptableRelaxed(ObjBookkeeping(s, d), d)
    IN  [self |-> s2, ret |-> AcceptableTest(d, s2)]

----------------------------------------------------------------------------
(* CheckConvergence *)

\* lines 211-217: the square-problem block of the primary test
PrimaryRelaxed(s, d) ==
    [s EXCEPT !.dual_inf_tol_ = RelaxTol(IsSquare(d), @),
              !.compl_inf_tol_ = RelaxTol(IsSquare(d), @)]

\* mutant: the square-problem block runs before the callback is asked
OnUserStop_AfterSquareBlock(s, d) == PrimaryRelaxed(s, d)

\* lines 200-203: the object when the callback requested stop
OnUserStop(s, d) == s

\* mutant: complementarity is compared strictly
ConvergedTest_Strict(d, s) ==
    /\ d.overall_error <= d.tol
    /\ d.dual_inf <= s.dual_inf_tol_
    /\ d.constr_viol <= s.constr_viol_tol_
    /\ d.compl_inf < s.compl_inf_tol_

\* lines 232-233
ConvergedTest(d, s) ==
    /\ d.overall_error <= d.tol
    /\ d.dual_inf <= s.dual_inf_tol_
    /\ d.constr_viol <= s.constr_viol_tol_
    /\ d.compl_inf <= s.compl_inf_tol_

\* mutant: the acceptable test is evaluated whatever acceptable_iter is
HeuristicEnabled_Always(s) == TRUE

\* line 238, left operand
HeuristicEnabled(s) == s.acceptable_iter_ > 0

\* mutant: the threshold must be exceeded
ThresholdReached_Strict(s) == s.acceptable_counter_ > s.acceptable_iter_

\* line 242
ThresholdReached(s) == s.acceptable_counter_ >= s.acceptable_iter_

\* mutant: a failing test leaves the counter
CounterReset_Missing(s) == s

\* line 249
CounterReset(s) == [s EXCEPT !.acceptable_counter_ = 0]

\* lines 238-250: CurrentIsAcceptable is called only if the heuristic is enabled
AcceptableStep(s, d) ==
    IF HeuristicEnabled(s)
    THEN LET r == CurrentIsAcceptableImpl(s, d)
         IN  IF r.ret
             THEN LET s3 == [r.self EXCEPT !.acceptable_counter_ = @ + 1]
                  IN  [self |-> s3, acc_test |-> "passed", reached |-> ThresholdReached(s3)]
             ELSE [self |-> CounterReset(r.self), acc_test |-> "failed", reached |-> FALSE]
    ELSE [self |-> CounterReset(s), acc_test |-> "not_evaluated", reached |-> FALSE]

\* mutant: a max-norm equal to the threshold diverges
DivergingTest_NonStrict(d, s) == d.x_Amax >= s.diverging_iterates_tol_

\* line 252
DivergingTest(d, s) == d.x_Amax > s.diverging_iterates_tol_

\* mutant: one iteration more than max_iter
MaxIterTest_Strict(d, s) == d.iter_count > s.max_iterations_

\* line 257
MaxIterTest(d, s) == d.iter_count >= s.max_iterations_

\* line 263
CpuTimeTest(d, s) ==
    s.max_cpu_time_ < CpuTimeCutoff /\ d.elapsed > s.max_cpu_time_

\* lines 252-268
TailStatus(d, s) ==
    IF DivergingTest(d, s) THEN "DIVERGING"
    ELSE IF MaxIterTest(d, s) THEN "MAXITER_EXCEEDED"
    ELSE IF CpuTimeTest(d, s) THEN "CPUTIME_EXCEEDED"
    ELSE "CONTINUE"

\* mutant: the direction is taken to exist as soon as it has an x part
HasDirection_XOnly(delta) == delta.valid /\ delta.x_valid

\* line 182: IsValid(delta) && IsValid(delta->x()) && IsValid(delta->s())
HasDirection(delta) == delta.valid /\ delta.x_valid /\ delta.s_valid

\* lines 181-191: dnrm
StepNorm(delta) ==
    IF HasDirection(delta) THEN Max(delta.x_Amax, delta.s_Amax) ELSE NoStep

\* lines 171-204: the arguments IntermediateCallBack gets (of them, dnrm)
CallbackArguments(d, call_intermediate_callback) ==
    IF call_intermediate_callback THEN <<StepNorm(d.delta)>> ELSE <<>>

\* lines 165-269.  cb_continue is what IntermediateCallBack returns if it is called.
CheckConvergenceImpl(s, d, call_intermediate_callback, cb_continue) ==
    LET stop == call_intermediate_callback /\ ~cb_continue
        args == CallbackArguments(d, call_intermediate_callback)
        s1   == PrimaryRelaxed(s, d)
        acc  == AcceptableStep(s1, d)
    IN  IF stop
        THEN [self |-> OnUserStop(s, d), ret |-> "USER_STOP", callback |-> args,
              request_stop |-> TRUE, acc_test |-> "not_evaluated"]
        ELSE IF ConvergedTest(d, s1)
        THEN [self |-> s1, ret |-> "CONVERGED", callback |-> args,
              request_stop |-> FALSE, acc_test |-> "not_evaluated"]
        ELSE IF acc.reached
        THEN [self |-> acc.self, ret |-> "CONVERGED_TO_ACCEPTABLE_POINT", callback |-> args,
              request_stop |-> FALSE, acc_test |-> acc.acc_test]
        ELSE [self |-> acc.self, ret |-> TailStatus(d, acc.self), callback |-> args,
              request_stop |-> FALSE, acc_test |-> acc.acc_test]

----------------------------------------------------------------------------
(* The state machine *)

\* the iterates of the model: at most one of dual infeasibility, constraint
\* violation and complementarity is above the smallest value, or the first
\* and the last together
ModelledPoint(d) ==
    LET high(f) == d[f] > 1
    IN  \/ ~(high("dual_inf") /\ high("constr_viol")) /\ ~high("compl_inf")
        \/ ~high("dual_inf") /\ ~high("constr_viol")
        \/ high("dual_inf") /\ ~high("constr_viol") /\ high("compl_inf")

AllData ==
    [iter_count    : {0},
     tol           : TolValues,
     overall_error : OverallErrorValues,
     dual_inf      : ErrorValues,
     constr_viol   : ErrorValues,
     compl_inf     : ErrorValues,
     x_Amax        : AmaxValues,
     curr_f        : ObjValues,
     elapsed       : ElapsedValues,
     x_Dim         : XDims,
     y_c_Dim       : YcDims,
     delta         : {NoDirection}]

InitialData == {d \in AllData : ModelledPoint(d)}

\* the quantities of the iterate that a new point changes, with their values
PointValues ==
    [overall_error |-> OverallErrorValues,
     dual_inf      |-> ErrorValues,
     constr_viol   |-> ErrorValues,
     compl_inf     |-> ErrorValues,
     x_Amax        |-> AmaxValues,
     curr_f        |-> ObjValues]

\* the constructed object: no field has been assigned; only last_obj_val_ keeps
\* its indeterminate value through InitializeImpl
Constructed(garbage) == [last_obj_val_ |-> garbage]

NoCall ==
    /\ status' = "NONE"
    /\ request_stop' = FALSE
    /\ acc_test' = "not_evaluated"
    /\ callback' = <<>>
    /\ pre' = self'

\* the solve goes on: no call has returned a terminal status
Running == initialization.ok /\ status \in {"NONE", "CONTINUE"}

Init ==
    /\ \E o \in OptionsLists, g \in ObjValues :
          /\ self = InitializeImplResult(Constructed(g), o)
          /\ initialization = [options |-> o, ok |-> TRUE]
    /\ ip \in InitialData
    /\ status = "NONE"
    /\ request_stop = FALSE
    /\ acc_test = "not_evaluated"
    /\ callback = <<>>
    /\ pre = self
    /\ streak = 0
    /\ calls = 0

\* the same with the base options
BaseInit ==
    /\ Init
    /\ initialization.options = BaseOptions

\* the next solve starts once the solve before it has ended: the options are
\* read again, IpData starts at iteration 0
InitializeImpl ==
    /\ ~Running
    /\ \E o \in OptionsLists :
          /\ self' = InitializeImplResult(self, o)
          /\ initialization' = [options |-> o, ok |-> TRUE]
    /\ ip' = [ip EXCEPT !.iter_count = 0]
    /\ streak' = 0
    /\ NoCall
    /\ UNCHANGED calls

\* one call of CheckConvergence on the current iterate
CheckConvergenceCall ==
    \E call_intermediate_callback \in BOOLEAN, cb_continue \in BOOLEAN :
        LET r == CheckConvergenceImpl(self, ip, call_intermediate_callback, cb_continue)
        IN  /\ self' = r.self
            /\ status' = r.ret
            /\ request_stop' = r.request_stop
            /\ acc_test' = r.acc_test
            /\ callback' = r.callback
            /\ pre' = self
            /\ streak' = CASE r.acc_test = "passed" -> streak + 1
                           [] r.acc_test = "failed" -> 0
                           [] OTHER -> streak
            /\ UNCHANGED <<ip, initialization>>

CheckConvergence ==
    /\ Running
    /\ CheckConvergenceCall
    /\ UNCHANGED calls

\* the public CurrentIsAcceptable, called outside CheckConvergence (line search)
CurrentIsAcceptable ==
    /\ Running
    /\ LET r == CurrentIsAcceptableImpl(self, ip)
       IN  /\ self' = r.self
           /\ status' = "NONE"
           /\ request_stop' = FALSE
           /\ acc_test' = IF r.ret THEN "passed" ELSE "failed"
           /\ callback' = <<>>
           /\ pre' = self
    /\ UNCHANGED <<ip, initialization, streak, calls>>

\* the current iterate changes in one of its quantities
NewPoint ==
    /\ Running
    /\ \E f \in DOMAIN PointValues :
          \E v \in PointValues[f] \ {ip[f]} :
              /\ ModelledPoint([ip EXCEPT ![f] = v])
              /\ ip' = [ip EXCEPT ![f] = v]
    /\ UNCHANGED <<self, initialization, streak, calls>>
    /\ NoCall

\* a trial point is accepted: the iteration counter advances
AcceptTrialPoint ==
    /\ Running
    /\ ip.iter_count < MaxIterations
    /\ ip' = [ip EXCEPT !.iter_count = @ + 1]
    /\ UNCHANGED <<self, initialization, streak, calls>>
    /\ NoCall

\* CPU time passes
Tick ==
    /\ Running
    /\ \E e \in ElapsedValues : e > ip.elapsed /\ ip' = [ip EXCEPT !.elapsed = e]
    /\ UNCHANGED <<self, initialization, streak, calls>>
    /\ NoCall

Next ==
    \/ InitializeImpl
    \/ CheckConvergence
    \/ CurrentIsAcceptable
    \/ NewPoint
    \/ AcceptTrialPoint
    \/ Tick

Spec == Init /\ [][Next]_vars

----------------------------------------------------------------------------
(* The driver that calls CheckConvergence once per iteration and accepts   *)
(* the next trial point only after CONTINUE.                               *)

DriverCheck ==
    /\ status = "NONE"
    /\ CheckConvergenceCall
    /\ calls' = calls + 1

DriverAdvance ==
    /\ status = "CONTINUE"
    /\ AcceptTrialPoint

DriverCompute ==
    /\ status = "NONE"
    /\ \/ NewPoint
       \/ Tick
       \/ CurrentIsAcceptable

DriverNext ==
    \/ DriverCheck
    \/ DriverAdvance
    \/ DriverCompute

DriverSpec == Init /\ [][DriverNext]_vars

----------------------------------------------------------------------------
(* One solve with the search directions of its iterations: the direction   *)
(* is only read for the step norm that the callback gets.                  *)

\* a search direction is computed, or the stored one is replaced
ComputeDirection ==
    /\ Running
    /\ \E delta \in Directions \ {ip.delta} : ip' = [ip EXCEPT !.delta = delta]
    /\ UNCHANGED <<self, initialization, streak, calls>>
    /\ NoCall

DirectionNext ==
    \/ CheckConvergence
    \/ ComputeDirection
    \/ NewPoint
    \/ AcceptTrialPoint
    \/ Tick

DirectionSpec == BaseInit /\ [][DirectionNext]_vars

----------------------------------------------------------------------------
(* Initialization with the options lists a user may write: the options     *)
(* registry refuses a list with a value outside its registered bound, and  *)
(* InitializeImpl reads the list otherwise.                                *)

InitializeWithOptions ==
    /\ ~Running
    /\ \E o \in RequestedOptions :
          IF Admitted(o)
          THEN /\ self' = InitializeImplResult(self, o)
               /\ initialization' = [options |-> o, ok |-> TRUE]
               /\ ip' = [ip EXCEPT !.iter_count = 0]
               /\ streak' = 0
          ELSE /\ initialization' = [options |-> o, ok |-> FALSE]
               /\ UNCHANGED <<self, ip, streak>>
    /\ NoCall
    /\ UNCHANGED calls

OptionsNext ==
    \/ InitializeWithOptions
    \/ CheckConvergence

OptionsSpec == BaseInit /\ [][OptionsNext]_vars

----------------------------------------------------------------------------
(* Conditions of the statuses, as the specification words them, on the     *)
(* call that has just returned: ip holds its inputs, pre the object before *)
(* it, self the object after it.                                           *)

Called == status # "NONE"

SquareProblem == ip.x_Dim = ip.y_c_Dim

\* all four quantities within their primary tolerances; on a square problem
\* dual infeasibility and complementarity are ignored
WithinPrimary ==
    /\ ip.overall_error <= ip.tol
    /\ SquareProblem \/ ip.dual_inf <= pre.dual_inf_tol_
    /\ ip.constr_viol <= pre.constr_viol_tol_
    /\ SquareProblem \/ ip.compl_inf <= pre.compl_inf_tol_

\* the acceptable test passed and the counter reaches the threshold with it
AcceptableThresholdReached ==
    acc_test = "passed" /\ pre.acceptable_counter_ + 1 >= pre.acceptable_iter_

Diverges == ip.x_Amax > pre.diverging_iterates_tol_

IterBudgetSpent == ip.iter_count >= pre.max_iterations_

TimeBudgetExceeded == ip.elapsed > pre.max_cpu_time_

EarliestStatus ==
    IF request_stop THEN "USER_STOP"
    ELSE IF WithinPrimary THEN "CONVERGED"
    ELSE IF AcceptableThresholdReached THEN "CONVERGED_TO_ACCEPTABLE_POINT"
    ELSE IF Diverges THEN "DIVERGING"
    ELSE IF IterBudgetSpent THEN "MAXITER_EXCEEDED"
    ELSE IF TimeBudgetExceeded THEN "CPUTIME_EXCEEDED"
    ELSE "CONTINUE"

----------------------------------------------------------------------------
\* C1: for every input and every reachable object, the status returned is the
\* earliest of USER_STOP, CONVERGED, CONVERGED_TO_ACCEPTABLE_POINT, DIVERGING,
\* MAXITER_EXCEEDED, CPUTIME_EXCEEDED, CONTINUE whose condition holds.
C1_EarliestStatusReturned == Called => status = EarliestStatus

\* C1, the part the code keeps: the same with the time test as line 263 has it
\* (a budget of 999999 s or more is never tested); in particular CONVERGED wins
\* over MAXITER_EXCEEDED.
C1_OrderWithTimeTestOfCode ==
    Called =>
        /\ pre.max_cpu_time_ < CpuTimeCutoff => status = EarliestStatus
        /\ (~request_stop /\ WithinPrimary /\ IterBudgetSpent) => status = "CONVERGED"

----------------------------------------------------------------------------
\* C2: a call in which the callback requests stop returns USER_STOP and leaves
\* every field of the object as it was, the tolerances of a square problem
\* included.
C2_UserStopMutatesNothing ==
    (Called /\ request_stop) => (status = "USER_STOP" /\ self = pre)

\* C2 witness: USER_STOP on a square problem whose tolerances are still the
\* configured ones.
C2_Witness ==
    /\ status = "USER_STOP"
    /\ request_stop
    /\ SquareProblem
    /\ self.dual_inf_tol_ # RelaxedTol
    /\ self.compl_inf_tol_ # RelaxedTol

----------------------------------------------------------------------------
\* C3: on a square problem the call that has just returned would have returned
\* the same status and left the same counter for every other pair of values of
\* dual_inf and compl_inf, whatever the four tolerances of the object were.
C3_SquareIgnoresDualAndCompl ==
    (Called /\ SquareProblem) =>
        \A di \in ErrorValues, ci \in ErrorValues :
            LET other == CheckConvergenceImpl(
                            pre, [ip EXCEPT !.dual_inf = di, !.compl_inf = ci],
                            TRUE, ~request_stop)
            IN  /\ other.ret = status
                /\ other.self.acceptable_counter_ = self.acceptable_counter_

\* C3 witness: the first call on a square problem (the four tolerances are the
\* configured ones) whose acceptable test is evaluated, with dual infeasibility
\* and complementarity above all four.
C3_Witness ==
    /\ Called
    /\ SquareProblem
    /\ acc_test # "not_evaluated"
    /\ ip.dual_inf > pre.dual_inf_tol_
    /\ ip.compl_inf > pre.compl_inf_tol_
    /\ ip.dual_inf > pre.acceptable_dual_inf_tol_
    /\ ip.compl_inf > pre.acceptable_compl_inf_tol_

----------------------------------------------------------------------------
\* C4: if the callback does not request stop, CONVERGED is returned exactly
\* when overall_error <= tol, dual_inf <= dual_inf_tol, constr_viol <=
\* constr_viol_tol and compl_inf <= compl_inf_tol (the two middle tolerances
\* being those in force: ignored on a square problem); such a call does not
\* evaluate the acceptable test and leaves the counter.
C4_ConvergedIffWithinPrimary ==
    (Called /\ ~request_stop) =>
        /\ (status = "CONVERGED") <=> WithinPrimary
        /\ status = "CONVERGED" =>
              /\ acc_test = "not_evaluated"
              /\ self.acceptable_counter_ = pre.acceptable_counter_
              /\ self.last_obj_val_iter_ = pre.last_obj_val_iter_

\* C4 witness: CONVERGED on a non-square problem with every quantity equal to
\* its tolerance and a counter that is not zero.
C4_Witness ==
    /\ status = "CONVERGED"
    /\ ~SquareProblem
    /\ ip.overall_error = ip.tol
    /\ ip.dual_inf = pre.dual_inf_tol_
    /\ ip.constr_viol = pre.constr_viol_tol_
    /\ ip.compl_inf = pre.compl_inf_tol_
    /\ self.acceptable_counter_ > 0

----------------------------------------------------------------------------
\* C5: the counter is never negative; a call leaves it at 0, at its previous
\* value or at its previous value plus one, and at 0 whenever the acceptable
\* test was evaluated and failed.
C5_CounterResetsOrGrowsByOne ==
    /\ self.acceptable_counter_ >= 0
    /\ Called =>
          /\ self.acceptable_counter_ \in
                {0, pre.acceptable_counter_, pre.acceptable_counter_ + 1}
          /\ acc_test = "failed" => self.acceptable_counter_ = 0

\* C5 witness: a failing acceptable test brought a positive counter to 0.
C5_Witness ==
    /\ Called
    /\ acc_test = "failed"
    /\ pre.acceptable_counter_ > 0
    /\ self.acceptable_counter_ = 0

----------------------------------------------------------------------------
\* C6: with acceptable_iter = N > 0, CONVERGED_TO_ACCEPTABLE_POINT is returned
\* exactly by a call whose acceptable test passes and completes N passes
\* since InitializeImpl or the last failing test.
C6_AcceptableAfterNPasses ==
    (Called /\ pre.acceptable_iter_ > 0) =>
        ((status = "CONVERGED_TO_ACCEPTABLE_POINT")
            <=> (acc_test = "passed" /\ streak >= pre.acceptable_iter_))

\* C6 witness: the second of two consecutive passes with acceptable_iter = 2.
C6_Witness ==
    /\ status = "CONVERGED_TO_ACCEPTABLE_POINT"
    /\ pre.acceptable_iter_ = MaxAcceptableIter
    /\ streak = MaxAcceptableIter
    /\ pre.acceptable_counter_ = MaxAcceptableIter - 1

----------------------------------------------------------------------------
\* C7: with acceptable_iter = 0 the counter is 0 in every state and
\* CONVERGED_TO_ACCEPTABLE_POINT is never returned.
C7_DisabledHeuristic ==
    self.acceptable_iter_ = 0 =>
        /\ self.acceptable_counter_ = 0
        /\ status # "CONVERGED_TO_ACCEPTABLE_POINT"

\* C7 witness: acceptable_iter = 0 and a call on an iterate that misses the
\* primary tolerance and whose four quantities are within the acceptable ones.
C7_Witness ==
    /\ Called
    /\ pre.acceptable_iter_ = 0
    /\ ~request_stop
    /\ ~WithinPrimary
    /\ ip.overall_error <= pre.acceptable_tol_
    /\ ip.dual_inf <= pre.acceptable_dual_inf_tol_
    /\ ip.constr_viol <= pre.acceptable_constr_viol_tol_
    /\ ip.compl_inf <= pre.acceptable_compl_inf_tol_
    /\ status = "CONTINUE"

----------------------------------------------------------------------------
\* C8: whenever the elapsed time exceeds max_cpu_time and no earlier condition
\* holds, CPUTIME_EXCEEDED is returned, for every max_cpu_time.
C8_CpuTimeExceeded ==
    (/\ Called
     /\ ~request_stop
     /\ ~WithinPrimary
     /\ ~AcceptableThresholdReached
     /\ ~Diverges
     /\ ~IterBudgetSpent
     /\ TimeBudgetExceeded) => status = "CPUTIME_EXCEEDED"

----------------------------------------------------------------------------
\* C9: a call with iter_count >= max_iter returns neither CONTINUE nor
\* CPUTIME_EXCEEDED, and MAXITER_EXCEEDED if no earlier condition holds; the
\* driver that accepts one trial point per CONTINUE gets CONTINUE at most
\* max_iter times, so a terminal status within max_iter + 1 calls.
C9_IterationBudgetBounds ==
    /\ (Called /\ IterBudgetSpent) =>
          /\ status \notin {"CONTINUE", "CPUTIME_EXCEEDED"}
          /\ (~request_stop /\ ~WithinPrimary /\ ~AcceptableThresholdReached /\ ~Diverges)
                => status = "MAXITER_EXCEEDED"
    /\ calls <= self.max_iterations_ + 1
    /\ status = "CONTINUE" => calls <= self.max_iterations_

\* C9 witness: the call number max_iter + 1 of the driver, for a max_iter that
\* is not 0, returns MAXITER_EXCEEDED although the time budget is exceeded too.
C9_Witness ==
    /\ status = "MAXITER_EXCEEDED"
    /\ self.max_iterations_ > 0
    /\ calls = self.max_iterations_ + 1
    /\ ip.iter_count = self.max_iterations_
    /\ TimeBudgetExceeded

----------------------------------------------------------------------------
\* C10: a call not ended by user stop, CONVERGED or the counter reaching its
\* threshold returns DIVERGING exactly when max-norm of x > diverging_iterates_tol
\* (whatever the iteration and time budgets), and then the counter has been
\* incremented or reset by this call.
C10_DivergingIffAboveThreshold ==
    (Called /\ ~request_stop /\ ~WithinPrimary /\ ~AcceptableThresholdReached) =>
        /\ (status = "DIVERGING") <=> Diverges
        /\ status = "DIVERGING" =>
              self.acceptable_counter_ =
                  IF acc_test = "passed" THEN pre.acceptable_counter_ + 1 ELSE 0

\* C10 witness: DIVERGING with both budgets spent, the counter incremented by
\* the same call.
C10_Witness ==
    /\ status = "DIVERGING"
    /\ IterBudgetSpent
    /\ TimeBudgetExceeded
    /\ pre.max_cpu_time_ < CpuTimeCutoff
    /\ acc_test = "passed"
    /\ self.acceptable_counter_ = pre.acceptable_counter_ + 1

----------------------------------------------------------------------------
\* the acceptable test was evaluated by the call that has just returned
\* (CheckConvergence past the CONVERGED test, or CurrentIsAcceptable itself)
Evaluated == acc_test # "not_evaluated"

\* nothing of the objective bookkeeping was changed by the call
BookkeepingUnchanged ==
    /\ self.last_obj_val_ = pre.last_obj_val_
    /\ self.curr_obj_val_ = pre.curr_obj_val_
    /\ self.last_obj_val_iter_ = pre.last_obj_val_iter_

\* C11: CONTINUE is returned exactly when no terminal condition holds: no stop
\* request, a quantity misses its primary tolerance, the counter after the
\* call is below acceptable_iter or the heuristic is disabled, max-norm of x <=
\* diverging_iterates_tol, iter_count < max_iter and the elapsed time does not
\* exceed max_cpu_time; and an iterate missing primary and acceptable
\* tolerances within both budgets gives CONTINUE with the counter at 0.
C11_ContinueIffNoTerminalCondition ==
    Called =>
        /\ (status = "CONTINUE") <=>
              /\ ~request_stop
              /\ ~WithinPrimary
              /\ \/ self.acceptable_counter_ < pre.acceptable_iter_
                 \/ pre.acceptable_iter_ = 0
              /\ ip.x_Amax <= pre.diverging_iterates_tol_
              /\ ip.iter_count < pre.max_iterations_
              /\ ~TimeBudgetExceeded
        /\ (/\ ~request_stop
            /\ ~WithinPrimary
            /\ acc_test = "failed"
            /\ ~Diverges
            /\ ~IterBudgetSpent
            /\ ~TimeBudgetExceeded) =>
                (status = "CONTINUE" /\ self.acceptable_counter_ = 0)

\* C11, the part the code keeps: the same equivalence with the time test as
\* line 263 has it.
C11_ContinueWithTimeTestOfCode ==
    Called =>
        ((status = "CONTINUE") <=>
              /\ ~request_stop
              /\ ~WithinPrimary
              /\ \/ self.acceptable_counter_ < pre.acceptable_iter_
                 \/ pre.acceptable_iter_ = 0
              /\ ip.x_Amax <= pre.diverging_iterates_tol_
              /\ ip.iter_count < pre.max_iterations_
              /\ ~(pre.max_cpu_time_ < CpuTimeCutoff /\ TimeBudgetExceeded))

----------------------------------------------------------------------------
\* C12: last_obj_val_, curr_obj_val_ and last_obj_val_iter_ change only in an
\* evaluation of the acceptable test at an iteration index other than the
\* recorded one, which shifts curr_obj_val_ into last_obj_val_, stores the
\* current objective and records the index; an evaluation at the recorded
\* index leaves the three, hence the result of the objective-change test, and
\* a CheckConvergence whose test passes there still increments the counter.
C12_BookkeepingOncePerIteration ==
    /\ (status = "NONE" /\ ~Evaluated) => BookkeepingUnchanged
    /\ (Called /\ ~Evaluated) => BookkeepingUnchanged
    /\ (Evaluated /\ ip.iter_count # pre.last_obj_val_iter_) =>
          /\ self.last_obj_val_ = pre.curr_obj_val_
          /\ self.curr_obj_val_ = ip.curr_f
          /\ self.last_obj_val_iter_ = ip.iter_count
    /\ (Evaluated /\ ip.iter_count = pre.last_obj_val_iter_) =>
          /\ BookkeepingUnchanged
          /\ ObjChangeTest(self) <=> ObjChangeTest(pre)
          /\ (Called /\ acc_test = "passed") =>
                self.acceptable_counter_ = pre.acceptable_counter_ + 1

\* C12 witness: a second CheckConvergence at the same index, after the
\* objective has changed, passes again: the bookkeeping keeps the objective
\* of the first evaluation and the counter is incremented a second time.
C12_Witness ==
    /\ Called
    /\ acc_test = "passed"
    /\ ip.iter_count = pre.last_obj_val_iter_
    /\ ip.curr_f # self.curr_obj_val_
    /\ pre.acceptable_counter_ > 0
    /\ self.acceptable_counter_ = pre.acceptable_counter_ + 1

----------------------------------------------------------------------------
\* the callback was invoked by the call that has just returned
CallbackInvoked == Called /\ callback # <<>>

\* C13: when the callback is invoked while there is no direction, or its x
\* part or its s part is missing, the step norm it gets is zero and the call
\* returns a status; when the direction is complete the step norm it gets is
\* the larger of the max-norms of the x part and of the s part.
C13_StepNormPassedToCallback ==
    CallbackInvoked =>
        /\ status \in Statuses
        /\ Len(callback) = 1
        /\ (~ip.delta.valid \/ ~ip.delta.x_valid \/ ~ip.delta.s_valid) =>
              callback[1] = 0
        /\ (ip.delta.valid /\ ip.delta.x_valid /\ ip.delta.s_valid) =>
              /\ callback[1] >= ip.delta.x_Amax
              /\ callback[1] >= ip.delta.s_Amax
              /\ callback[1] \in {ip.delta.x_Amax, ip.delta.s_Amax}

\* C13 witness: the callback is invoked with a direction that has an x part
\* of positive norm and no s part, and gets zero.
C13_Witness ==
    /\ CallbackInvoked
    /\ ip.delta.valid
    /\ ip.delta.x_valid
    /\ ~ip.delta.s_valid
    /\ ip.delta.x_Amax > 0
    /\ callback = <<0>>

\* C13, the other case: the callback is invoked with a complete direction whose
\* s part has the larger norm, and gets that norm.
C13_WitnessCompleteDirection ==
    /\ CallbackInvoked
    /\ ip.delta.valid /\ ip.delta.x_valid /\ ip.delta.s_valid
    /\ ip.delta.s_Amax > ip.delta.x_Amax
    /\ callback = <<ip.delta.s_Amax>>

----------------------------------------------------------------------------
\* the four ranges as the claim has them
InClaimedRanges(o) ==
    /\ o.max_iter >= 0
    /\ o.max_cpu_time > 0
    /\ o.dual_inf_tol > 0 /\ o.dual_inf_tol <= 1
    /\ o.acceptable_iter >= 0

\* the four ranges as registered
InRegisteredRanges(o) ==
    /\ o.max_iter >= 0
    /\ o.max_cpu_time > 0
    /\ o.dual_inf_tol > 0
    /\ o.acceptable_iter >= 0

\* after an initialization that did not succeed no call is made and the
\* object is as it was
NothingAfterRejection ==
    ~initialization.ok => (status = "NONE" /\ self = pre /\ ~Running)

\* C14 as claimed: an initialization succeeds exactly when max_iter >= 0,
\* max_cpu_time > 0, 0 < dual_inf_tol <= 1 and acceptable_iter >= 0, and no
\* iteration follows one that did not succeed.
C14_ClaimedRangesEnforced ==
    /\ initialization.ok <=> InClaimedRanges(initialization.options)
    /\ NothingAfterRejection

\* C14 amended: the same with dual_inf_tol admitted exactly when it is > 0
\* (its registered range has no upper bound).
C14_RegisteredRangesEnforced ==
    /\ initialization.ok <=> InRegisteredRanges(initialization.options)
    /\ initialization.ok =>
          /\ self.max_iterations_ = initialization.options.max_iter
          /\ self.max_cpu_time_ = initialization.options.max_cpu_time
          /\ self.acceptable_iter_ = initialization.options.acceptable_iter
          /\ self.dual_inf_tol_ \in {initialization.options.dual_inf_tol, RelaxedTol}
    /\ NothingAfterRejection

\* C14 witness: after a solve, an initialization with max_cpu_time = 0 has
\* been refused; the object still has the budget of the solve before.
C14_Witness ==
    /\ ~initialization.ok
    /\ initialization.options.max_cpu_time = 0
    /\ self.max_cpu_time_ > 0

----------------------------------------------------------------------------
\* |f + 1e50| / max(1, |f|) > acceptable_obj_change_tol for the current objective
FarFromSentinel ==
    Abs(ip.curr_f - ObjSentinel) > pre.acceptable_obj_change_tol_ * Max(1, Abs(ip.curr_f))

\* C15: until the first evaluation after InitializeImpl the recorded objective
\* is -1e50, the recorded index -1 and the counter 0; the first evaluation
\* compares the current objective with -1e50 and fails whenever the relative
\* distance of the two is above acceptable_obj_change_tol, whatever the four
\* error quantities; the first CheckConvergence call of the solve then leaves
\* the counter at 0 and does not return CONVERGED_TO_ACCEPTABLE_POINT.
C15_FirstEvaluationAgainstSentinel ==
    /\ self.last_obj_val_iter_ = NoIter =>
          (self.curr_obj_val_ = ObjSentinel /\ self.acceptable_counter_ = 0)
    /\ (Evaluated /\ pre.last_obj_val_iter_ = NoIter) =>
          /\ self.last_obj_val_ = ObjSentinel
          /\ self.curr_obj_val_ = ip.curr_f
          /\ FarFromSentinel => acc_test = "failed"
    /\ (Called /\ calls = 1 /\ FarFromSentinel) =>
          /\ self.acceptable_counter_ = 0
          /\ status # "CONVERGED_TO_ACCEPTABLE_POINT"

\* C15 witness: the first call of a solve with acceptable_iter = 1 evaluates
\* the test for the first time on an iterate whose four quantities are within
\* the acceptable tolerances; the test fails and the counter is 0.
C15_Witness ==
    /\ Called
    /\ calls = 1
    /\ pre.acceptable_iter_ = 1
    /\ pre.last_obj_val_iter_ = NoIter
    /\ FarFromSentinel
    /\ ip.overall_error <= pre.acceptable_tol_
    /\ ip.dual_inf <= pre.acceptable_dual_inf_tol_
    /\ ip.constr_viol <= pre.acceptable_constr_viol_tol_
    /\ ip.compl_inf <= pre.acceptable_compl_inf_tol_
    /\ acc_test = "failed"
    /\ self.acceptable_counter_ = 0
    /\ status = "CONTINUE"

----------------------------------------------------------------------------
\* the configured value of each stored tolerance
Configured ==
    [dual_inf_tol_                |-> initialization.options.dual_inf_tol,
     constr_viol_tol_             |-> initialization.options.constr_viol_tol,
     compl_inf_tol_               |-> initialization.options.compl_inf_tol,
     acceptable_tol_              |-> initialization.options.acceptable_tol,
     acceptable_dual_inf_tol_     |-> initialization.options.acceptable_dual_inf_tol,
     acceptable_constr_viol_tol_  |-> initialization.options.acceptable_constr_viol_tol,
     acceptable_compl_inf_tol_    |-> initialization.options.acceptable_compl_inf_tol,
     acceptable_obj_change_tol_   |-> initialization.options.acceptable_obj_change_tol,
     diverging_iterates_tol_      |-> initialization.options.diverging_iterates_tol]

PrimaryPair == {"dual_inf_tol_", "compl_inf_tol_"}

AcceptablePair == {"acceptable_dual_inf_tol_", "acceptable_compl_inf_tol_"}

\* what C16 says of every state and every call, but for acceptable_iter = 0:
\* a stored tolerance is the configured value or, for the four of a square
\* problem, 1e300; a call on a non-square problem changes none; on a square
\* problem a CheckConvergence past the callback leaves the primary pair at
\* 1e300 and an evaluation of the acceptable test the acceptable pair; what
\* is 1e300 before a call is 1e300 after it.
RelaxationOnlyAndPermanent ==
    /\ \A f \in DOMAIN Configured \ (PrimaryPair \cup AcceptablePair) :
          self[f] = Configured[f]
    /\ \A f \in PrimaryPair \cup AcceptablePair :
          /\ self[f] \in {Configured[f], RelaxedTol}
          /\ ~SquareProblem => self[f] = Configured[f]
          /\ self[f] \in {pre[f], RelaxedTol}
          /\ pre[f] = RelaxedTol => self[f] = RelaxedTol
    /\ (SquareProblem /\ Called /\ ~request_stop) =>
          \A f \in PrimaryPair : self[f] = RelaxedTol
    /\ (SquareProblem /\ Evaluated) =>
          \A f \in AcceptablePair : self[f] = RelaxedTol
    /\ ~Evaluated => \A f \in AcceptablePair : self[f] = pre[f]
    /\ ~(Called /\ ~request_stop) => \A f \in PrimaryPair : self[f] = pre[f]

\* C16 as claimed: the above, and with acceptable_iter = 0 the acceptable
\* pair is never relaxed.
C16_AcceptablePairNeverRelaxedIfDisabled ==
    /\ RelaxationOnlyAndPermanent
    /\ self.acceptable_iter_ = 0 =>
          \A f \in AcceptablePair : self[f] = Configured[f]

\* C16 amended: the above, and with acceptable_iter = 0 no call of
\* CheckConvergence evaluates the acceptable test, so none relaxes the
\* acceptable pair (a call of CurrentIsAcceptable itself on a square problem
\* does).
C16_RelaxationOnlyAndPermanent ==
    /\ RelaxationOnlyAndPermanent
    /\ (Called /\ pre.acceptable_iter_ = 0) =>
          /\ ~Evaluated
          /\ \A f \in AcceptablePair : self[f] = pre[f]

\* C16 witness: a CheckConvergence on a square problem whose four tolerances
\* were relaxed by an earlier call evaluates the acceptable test and leaves
\* them at 1e300.
C16_Witness ==
    /\ Called
    /\ Evaluated
    /\ SquareProblem
    /\ \A f \in PrimaryPair \cup AcceptablePair :
          /\ Configured[f] # RelaxedTol
          /\ pre[f] = RelaxedTol
          /\ self[f] = RelaxedTol

\* C16, the case of the amendment: with acceptable_iter = 0 a CheckConvergence
\* on a square problem relaxes the primary pair and leaves the acceptable pair
\* as configured.
C16_WitnessDisabled ==
    /\ Called
    /\ ~request_stop
    /\ SquareProblem
    /\ pre.acceptable_iter_ = 0
    /\ \A f \in PrimaryPair : pre[f] = Configured[f] /\ self[f] = RelaxedTol
    /\ \A f \in AcceptablePair : self[f] = Configured[f]

====
